---- MODULE Spec2Model ----
(***************************************************************************)
(* Boundary-condition assembly of FESTIM.                                  *)
(*                                                                         *)
(*   src/FESTIM/boundary_conditions.py                                     *)
(*       define_dirichlet_bcs_T, apply_fluxes, apply_boundary_conditions,  *)
(*       BoundaryConditionTheta / Recomb / Solubility                      *)
(*   src/FESTIM/boundary_conditions/fluxes/convective_flux.py              *)
(*       ConvectiveFlux.create_form                                        *)
(*   src/festim/boundary_conditions/fluxes/mass_flux.py                    *)
(*       MassFlux.create_form, sieverts_constant, henry_constant           *)
(*                                                                         *)
(* The state is the problem description (the declared conditions, the      *)
(* materials, the simulation's S and function space), the FluxBC objects,  *)
(* and the outcome of the most recent call: the callee's local variables   *)
(* at the moment it returned or raised.                                    *)
(*                                                                         *)
(* Values the code only passes on (sympy expressions, Arrhenius            *)
(* parameters, UFL forms) are kept symbolic: a symbolic expression is a    *)
(* sequence of strings, a constructed object is a record naming its class, *)
(* its constructor arguments, the order in which it was created (oid) and  *)
(* the position of the declaration the loop was handling (decl).           *)
(***************************************************************************)
EXTENDS Integers, Sequences, FiniteSets, TLC

\* Bound: the total number of declarations of a problem (conditions of the
\* hydrogen problem, conditions of the thermal problem, FluxBC objects).
MaxConds == 2

VARIABLES parameters, S, V, fluxbcs, ret

vars == <<parameters, S, V, fluxbcs, ret>>

(***************************************************************************)
(* Declarations: a condition is a Python dict.  keys is the set of keys    *)
(* the dict has; a field is meaningful only when its key is in keys.       *)
(* sym names the condition's symbolic parameters.                          *)
(***************************************************************************)

\* surfaces given as a bare id
Bare(s) == [islist |-> FALSE, id |-> s, ids |-> <<>>]

\* surfaces given as a list of ids
List(ids) == [islist |-> TRUE, id |-> 0, ids |-> ids]

Decl(type, keys, surfaces, component, K_0, sym) ==
  [keys |-> keys, type |-> type, surfaces |-> surfaces,
   component |-> component, K_0 |-> K_0, sym |-> sym]

\* the keys a well-formed declaration of each kind carries
KeysOf(type) ==
  CASE type = "dc"         -> {"type", "value", "surfaces"}
    [] type = "solubility" -> {"type", "pressure", "S_0", "E_S", "surfaces"}
    [] type = "dc_imp"     -> {"type", "implanted_flux", "implantation_depth",
                               "D_0", "E_D", "surfaces"}
    [] type = "flux"       -> {"type", "value", "surfaces"}
    [] type = "recomb"     -> {"type", "Kr_0", "E_Kr", "order", "surfaces"}
    [] OTHER               -> {"type", "value", "surfaces"}

\* the declarations of the hydrogen problem the model draws from
BCPool ==
       {Decl("dc", KeysOf("dc"), s, 0, "None", "a") :
            s \in {Bare(1), List(<<2, 1>>)}}
  \cup {Decl("dc", KeysOf("dc") \cup {"component"}, Bare(2), c, "None", "b") :
            c \in {0, 1}}
  \cup {Decl("dc", KeysOf("dc") \ {"value"}, Bare(1), 0, "None", "a")}
  \cup {Decl("solubility", KeysOf("solubility"), List(<<1, 2>>), 0, "None",
             "b")}
  \cup {Decl("dc_imp", KeysOf("dc_imp") \cup k, Bare(1), 0, "K", "a") :
            k \in SUBSET {"K_0", "E_K"}}
  \cup {Decl("dc_imp", KeysOf("dc_imp") \cup {"K_0", "E_K"}, List(<<2>>), 0,
             "None", "b")}
  \cup {Decl("flux", KeysOf("flux"), Bare(1), 0, "None", "a"),
        Decl("flux", KeysOf("flux"), List(<<>>), 0, "None", "b")}
  \cup {Decl("recomb", KeysOf("recomb"), List(<<2, 1>>), 0, "None", "a")}
  \cup {Decl("bogus", KeysOf("bogus"), Bare(1), 0, "None", "a")}
  \cup {Decl("", KeysOf("dc") \ {"type"}, Bare(1), 0, "None", "a")}

\* the declarations of the thermal problem the model draws from
TPool ==
  {Decl("dc", KeysOf("dc"), Bare(1), 0, "None", "a"),
   Decl("dc", KeysOf("dc"), List(<<2, 1>>), 0, "None", "b"),
   Decl("flux", KeysOf("flux"), Bare(2), 0, "None", "a")}

\* a material is a dict too: only its keys matter here
Material(keys) == [keys |-> keys]

MaterialLists ==
  {<<>>,
   <<Material({"D_0", "E_D", "S_0", "E_S"})>>,
   <<Material({"D_0", "E_D", "E_S"})>>,
   <<Material({"D_0", "E_D", "S_0"})>>,
   <<Material({"D_0", "E_D"}), Material({"D_0", "E_D", "S_0", "E_S"})>>}

(***************************************************************************)
(* FESTIM.helpers.bc_types: the kinds of condition each category holds.    *)
(***************************************************************************)
bc_types_dc == {"dc", "solubility", "dc_imp"}

bc_types_neumann == {"flux"}

bc_types_robin == {"recomb"}

(***************************************************************************)
(* Objects.                                                                *)
(***************************************************************************)
Obj(cls, oid, decl, code, degree, args, K_0) ==
  [cls |-> cls, oid |-> oid, decl |-> decl, code |-> code,
   degree |-> degree, args |-> args, K_0 |-> K_0]

\* a local variable no assignment has reached
Unbound == Obj("unbound", 0, 0, <<>>, 0, <<>>, "None")

\* sp.printing.ccode: the C source text of a symbolic expression
ccode(expr) == <<"ccode">> \o expr

\* fenics.Expression(code, t=0, degree=degree)
Expression(code, degree, oid, decl) ==
  Obj("Expression", oid, decl, code, degree, <<>>, "None")

\* BoundaryConditionSolubility(S_0, E_S, pressure, T)
BoundaryConditionSolubility(S_0, E_S, pressure, oid, decl) ==
  Obj("BoundaryConditionSolubility", oid, decl, S_0 \o E_S, 0, <<pressure>>,
      "None")

\* BoundaryConditionRecomb(phi, R_p, K_0, E_K, D_0, E_D, T)
BoundaryConditionRecomb(phi, R_p, K_0, E_K, D_0, E_D, oid, decl) ==
  Obj("BoundaryConditionRecomb", oid, decl, E_K \o D_0 \o E_D, 0,
      <<phi, R_p>>, K_0)

\* BoundaryConditionTheta(bci, mesh, materials, vm, T)
BoundaryConditionTheta(bci, oid, decl) ==
  Obj("BoundaryConditionTheta", oid, decl, <<>>, 0, <<bci>>, "None")

\* BoundaryConditionRecomb.eval: the addends of the surface concentration
BoundaryConditionRecomb_eval(self) ==
  LET val == <<"phi*R_p/D">>
  IN  IF self.K_0 # "None" THEN Append(val, "(phi/K)**0.5") ELSE val

\* fenics.DirichletBC(funspace, value, surface_markers, surface)
DirichletBC(funspace, value, surface, decl) ==
  [funspace |-> funspace, value |-> value, surface |-> surface, decl |-> decl]

\* raise exc(msg) while handling declaration i
Raise(fr, exc, msg, i) == [fr EXCEPT !.status = exc, !.msg = msg, !.at = i]

\* the next object's creation number
NextOid(fr) == Len(fr.created) + 1

(***************************************************************************)
(* apply_boundary_conditions(simulation)                                   *)
(***************************************************************************)

\* the locals of apply_boundary_conditions before its loop
abc_enter ==
  [fn |-> "apply_boundary_conditions", status |-> "running", msg |-> <<>>,
   at |-> 0, type_BC |-> "", value_BC |-> Unbound, bcs |-> <<>>,
   expressions |-> <<>>, created |-> <<>>]

\* abc_type with a default kind in place of the KeyError
abc_type_default(fr, BC, i) ==
  [fr EXCEPT !.type_BC = IF "type" \in BC.keys THEN BC.type ELSE "dc"]

\* type_BC = BC["type"], or KeyError when the key is missing
abc_type(fr, BC, i) ==
  IF "type" \in BC.keys
    THEN [fr EXCEPT !.type_BC = BC.type]
    ELSE Raise(fr, "KeyError", <<"Missing boundary condition type key">>, i)

\* abc_recomb_coefficients taking K_0 as soon as the key K_0 is given
abc_recomb_coefficients_K_0_only(BC) ==
  IF "K_0" \in BC.keys
    THEN [K_0 |-> BC.K_0, E_K |-> <<"E_K", BC.sym>>]
    ELSE [K_0 |-> "None", E_K |-> <<"None">>]

\* K_0, E_K of a dc_imp declaration: instantaneous recombination unless
\* both keys are given
abc_recomb_coefficients(BC) ==
  IF "K_0" \in BC.keys /\ "E_K" \in BC.keys
    THEN [K_0 |-> BC.K_0, E_K |-> <<"E_K", BC.sym>>]
    ELSE [K_0 |-> "None", E_K |-> <<"None">>]

\* type_BC == "dc": the value expression
abc_value_dc(fr, BC, i) ==
  IF "value" \notin BC.keys THEN Raise(fr, "KeyError", <<"value">>, i)
  ELSE LET value_BC == Expression(ccode(<<"value", BC.sym>>), 4, NextOid(fr), i)
       IN  [fr EXCEPT !.value_BC = value_BC,
                      !.created = Append(@, value_BC)]

\* abc_value_solubility without the registration of the pressure
abc_value_solubility_unregistered(fr, BC, i) ==
  IF "pressure" \notin BC.keys THEN Raise(fr, "KeyError", <<"pressure">>, i)
  ELSE
    LET pressure == Expression(ccode(<<"pressure", BC.sym>>), 2, NextOid(fr), i)
        f1 == [fr EXCEPT !.created = Append(@, pressure)]
    IN  IF "S_0" \notin BC.keys THEN Raise(f1, "KeyError", <<"S_0">>, i)
        ELSE IF "E_S" \notin BC.keys THEN Raise(f1, "KeyError", <<"E_S">>, i)
        ELSE
          LET value_BC == BoundaryConditionSolubility(
                            <<"S_0", BC.sym>>, <<"E_S", BC.sym>>, pressure,
                            NextOid(f1), i)
          IN  [f1 EXCEPT !.value_BC = value_BC,
                         !.created = Append(@, value_BC)]

\* type_BC == "solubility": the pressure expression, registered, and the
\* Sieverts value built on it
abc_value_solubility(fr, BC, i) ==
  IF "pressure" \notin BC.keys THEN Raise(fr, "KeyError", <<"pressure">>, i)
  ELSE
    LET pressure == Expression(ccode(<<"pressure", BC.sym>>), 2, NextOid(fr), i)
        f1 == [fr EXCEPT !.expressions = Append(@, pressure),
                         !.created = Append(@, pressure)]
    IN  IF "S_0" \notin BC.keys THEN Raise(f1, "KeyError", <<"S_0">>, i)
        ELSE IF "E_S" \notin BC.keys THEN Raise(f1, "KeyError", <<"E_S">>, i)
        ELSE
          LET value_BC == BoundaryConditionSolubility(
                            <<"S_0", BC.sym>>, <<"E_S", BC.sym>>, pressure,
                            NextOid(f1), i)
          IN  [f1 EXCEPT !.value_BC = value_BC,
                         !.created = Append(@, value_BC)]

\* type_BC == "dc_imp": the implanted flux and the implantation depth,
\* registered, and the surface concentration built on them
abc_value_dc_imp(fr, BC, i) ==
  IF "implanted_flux" \notin BC.keys
    THEN Raise(fr, "KeyError", <<"implanted_flux">>, i)
  ELSE
    LET phi == Expression(ccode(<<"implanted_flux", BC.sym>>), 1,
                          NextOid(fr), i)
        f1  == [fr EXCEPT !.created = Append(@, phi)]
    IN  IF "implantation_depth" \notin BC.keys
          THEN Raise(f1, "KeyError", <<"implantation_depth">>, i)
        ELSE
          LET R_p == Expression(ccode(<<"implantation_depth", BC.sym>>), 1,
                                NextOid(f1), i)
              f2  == [f1 EXCEPT !.created = Append(@, R_p),
                                !.expressions = @ \o <<phi, R_p>>]
          IN  IF "D_0" \notin BC.keys THEN Raise(f2, "KeyError", <<"D_0">>, i)
              ELSE IF "E_D" \notin BC.keys
                THEN Raise(f2, "KeyError", <<"E_D">>, i)
              ELSE
                LET KE == abc_recomb_coefficients(BC)
                    value_BC == BoundaryConditionRecomb(
                                  phi, R_p, KE.K_0, KE.E_K,
                                  <<"D_0", BC.sym>>, <<"E_D", BC.sym>>,
                                  NextOid(f2), i)
                IN  [f2 EXCEPT !.value_BC = value_BC,
                               !.created = Append(@, value_BC)]

\* the if / elif chain on type_BC
abc_value(fr, BC, i) ==
  CASE fr.type_BC = "dc"         -> abc_value_dc(fr, BC, i)
    [] fr.type_BC = "solubility" -> abc_value_solubility(fr, BC, i)
    [] fr.type_BC = "dc_imp"     -> abc_value_dc_imp(fr, BC, i)
    [] OTHER                     -> fr

\* abc_check without the test: an unknown kind is passed over
abc_check_skip(fr, BC, i) == fr

\* NameError unless BC["type"] is a kind of one of the three categories
abc_check(fr, BC, i) ==
  IF "type" \notin BC.keys THEN Raise(fr, "KeyError", <<"type">>, i)
  ELSE IF /\ BC.type \notin bc_types_neumann
          /\ BC.type \notin bc_types_robin
          /\ BC.type \notin bc_types_dc
    THEN Raise(fr, "NameError",
               <<"Unknown boundary condition type : ", BC.type>>, i)
    ELSE fr

\* component = BC["component"], the solute (0) by default
abc_component(BC) == IF "component" \in BC.keys THEN BC.component ELSE 0

\* conservation_chemic_pot: some material has the key S_0
abc_conservation_chemic_pot(materials) ==
  \E m \in 1..Len(materials) : "S_0" \in materials[m].keys

\* abc_register without the registration of the unmodified value
abc_register_theta_only(fr, component, conservation_chemic_pot, i) ==
  IF fr.value_BC.cls = "unbound"
    THEN Raise(fr, "UnboundLocalError", <<"value_BC">>, i)
  ELSE IF component = 0 /\ conservation_chemic_pot
    THEN LET theta == BoundaryConditionTheta(fr.value_BC, NextOid(fr), i)
         IN  [fr EXCEPT !.expressions = Append(@, theta),
                        !.created = Append(@, theta),
                        !.value_BC = theta]
    ELSE [fr EXCEPT !.expressions = Append(@, fr.value_BC)]

\* the value is registered; under conservation of chemical potential the
\* solute's value is registered, wrapped and the wrapper registered too
abc_register(fr, component, conservation_chemic_pot, i) ==
  IF fr.value_BC.cls = "unbound"
    THEN Raise(fr, "UnboundLocalError", <<"value_BC">>, i)
  ELSE IF component = 0 /\ conservation_chemic_pot
    THEN LET theta == BoundaryConditionTheta(fr.value_BC, NextOid(fr), i)
         IN  [fr EXCEPT !.expressions = @ \o <<fr.value_BC, theta>>,
                        !.created = Append(@, theta),
                        !.value_BC = theta]
    ELSE [fr EXCEPT !.expressions = Append(@, fr.value_BC)]

\* as_list without the wrapping of a bare id
as_list_nowrap(surfaces) == surfaces.ids

\* surfaces as a list: anything that is not a list is wrapped in one
as_list(surfaces) ==
  IF ~surfaces.islist THEN <<surfaces.id>> ELSE surfaces.ids

\* the function space: V itself when it has no sub-space
abc_funspace(num_sub_spaces, component) ==
  IF num_sub_spaces = 0
    THEN [whole |-> TRUE, component |-> 0]
    ELSE [whole |-> FALSE, component |-> component]

\* abc_constraints with the loop left after its first pass
abc_constraints_first(funspace, value_BC, surfaces, i) ==
  [k \in 1..(IF Len(surfaces) > 0 THEN 1 ELSE 0) |->
     DirichletBC(funspace, value_BC, surfaces[k], i)]

\* one DirichletBC per surface, in the order of the list
abc_constraints(funspace, value_BC, surfaces, i) ==
  [k \in 1..Len(surfaces) |-> DirichletBC(funspace, value_BC, surfaces[k], i)]

\* the body of `if type_BC in bc_types["dc"]`
abc_dirichlet(fr, BC, i, materials, num_sub_spaces) ==
  IF fr.type_BC \notin bc_types_dc THEN fr
  ELSE
    LET component == abc_component(BC)
        f1 == abc_register(fr, component,
                           abc_conservation_chemic_pot(materials), i)
    IN  IF f1.status # "running" THEN f1
        ELSE IF "surfaces" \notin BC.keys
          THEN Raise(f1, "KeyError", <<"surfaces">>, i)
        ELSE [f1 EXCEPT !.bcs = @ \o abc_constraints(
                                       abc_funspace(num_sub_spaces, component),
                                       f1.value_BC, as_list(BC.surfaces), i)]

\* one pass of the loop over the declared conditions
abc_body(fr, BC, i, materials, num_sub_spaces) ==
  LET f1 == abc_type(fr, BC, i)
      f2 == IF f1.status = "running" THEN abc_value(f1, BC, i) ELSE f1
      f3 == IF f2.status = "running" THEN abc_check(f2, BC, i) ELSE f2
  IN  IF f3.status = "running"
        THEN abc_dirichlet(f3, BC, i, materials, num_sub_spaces)
        ELSE f3

RECURSIVE abc_loop(_, _, _, _, _)
abc_loop(fr, boundary_conditions, i, materials, num_sub_spaces) ==
  IF fr.status # "running" THEN fr
  ELSE IF i > Len(boundary_conditions) THEN [fr EXCEPT !.status = "returned"]
  ELSE abc_loop(abc_body(fr, boundary_conditions[i], i, materials,
                         num_sub_spaces),
                boundary_conditions, i + 1, materials, num_sub_spaces)

apply_boundary_conditions(boundary_conditions, materials, num_sub_spaces) ==
  abc_loop(abc_enter, boundary_conditions, 1, materials, num_sub_spaces)

(***************************************************************************)
(* apply_fluxes(simulation)                                                *)
(***************************************************************************)

\* conservation_chemic_pot: S is given and some material has S_0 or E_S
af_conservation_chemic_pot(S_, materials) ==
  /\ S_ # "None"
  /\ \E m \in 1..Len(materials) :
        "S_0" \in materials[m].keys \/ "E_S" \in materials[m].keys

\* the locals of apply_fluxes before its loop
af_enter(S_, materials) ==
  LET conservation_chemic_pot == af_conservation_chemic_pot(S_, materials)
  IN  [fn |-> "apply_fluxes", status |-> "running", msg |-> <<>>, at |-> 0,
       conservation_chemic_pot |-> conservation_chemic_pot,
       solute |-> IF conservation_chemic_pot THEN "solute*S" ELSE "solute",
       flux |-> Unbound, F |-> <<>>, expressions |-> <<>>, created |-> <<>>]

\* NameError unless the kind is natural; the caller has excluded the
\* essential kinds
af_check(fr, bc, i) ==
  IF bc.type \notin bc_types_neumann /\ bc.type \notin bc_types_robin
    THEN Raise(fr, "NameError",
               <<"Unknown boundary condition type : ", bc.type>>, i)
    ELSE fr

\* af_flux without the "recomb" branch: flux keeps its earlier value
af_flux_stale(fr, bc, i) ==
  CASE bc.type = "flux" ->
         IF "value" \notin bc.keys THEN Raise(fr, "KeyError", <<"value">>, i)
         ELSE LET flux == Expression(ccode(<<"value", bc.sym>>), 2,
                                     NextOid(fr), i)
              IN  [fr EXCEPT !.flux = flux,
                             !.expressions = Append(@, flux),
                             !.created = Append(@, flux)]
    [] OTHER -> fr

\* the flux of the condition: a registered expression for "flux",
\* -Kr*solute**order for "recomb"
af_flux(fr, bc, i) ==
  CASE bc.type = "flux" ->
         IF "value" \notin bc.keys THEN Raise(fr, "KeyError", <<"value">>, i)
         ELSE LET flux == Expression(ccode(<<"value", bc.sym>>), 2,
                                     NextOid(fr), i)
              IN  [fr EXCEPT !.flux = flux,
                             !.expressions = Append(@, flux),
                             !.created = Append(@, flux)]
    [] bc.type = "recomb" ->
         IF "Kr_0" \notin bc.keys THEN Raise(fr, "KeyError", <<"Kr_0">>, i)
         ELSE IF "E_Kr" \notin bc.keys
           THEN Raise(fr, "KeyError", <<"E_Kr">>, i)
         ELSE IF "order" \notin bc.keys
           THEN Raise(fr, "KeyError", <<"order">>, i)
         ELSE [fr EXCEPT !.flux =
                 Obj("-Kr*solute**order", 0, i,
                     <<"Kr_0", bc.sym, "E_Kr", bc.sym, fr.solute,
                       "order", bc.sym>>, 0, <<>>, "None")]
    [] OTHER -> fr

\* surfaces as a list: anything that is not a list is wrapped in one
af_as_list(surfaces) ==
  IF ~surfaces.islist THEN <<surfaces.id>> ELSE surfaces.ids

\* F += -test_solute*flux*ds(surf) for each surface of the list
af_terms(fr, surfaces, i) ==
  IF Len(surfaces) > 0 /\ fr.flux.cls = "unbound"
    THEN Raise(fr, "UnboundLocalError", <<"flux">>, i)
    ELSE [fr EXCEPT !.F = @ \o
            [k \in 1..Len(surfaces) |->
               [test |-> "-test_solute", flux |-> fr.flux,
                surface |-> surfaces[k], decl |-> i]]]

\* one pass of the loop over the declared conditions
af_body(fr, bc, i) ==
  IF "type" \notin bc.keys THEN Raise(fr, "KeyError", <<"type">>, i)
  ELSE IF bc.type \in bc_types_dc THEN fr
  ELSE
    LET f1 == af_check(fr, bc, i)
        f2 == IF f1.status = "running" THEN af_flux(f1, bc, i) ELSE f1
    IN  IF f2.status # "running" THEN f2
        ELSE IF "surfaces" \notin bc.keys
          THEN Raise(f2, "KeyError", <<"surfaces">>, i)
        ELSE af_terms(f2, af_as_list(bc.surfaces), i)

RECURSIVE af_loop(_, _, _)
af_loop(fr, boundary_conditions, i) ==
  IF fr.status # "running" THEN fr
  ELSE IF i > Len(boundary_conditions) THEN [fr EXCEPT !.status = "returned"]
  ELSE af_loop(af_body(fr, boundary_conditions[i], i), boundary_conditions,
               i + 1)

apply_fluxes(boundary_conditions, materials, S_) ==
  af_loop(af_enter(S_, materials), boundary_conditions, 1)

(***************************************************************************)
(* define_dirichlet_bcs_T(simulation)                                      *)
(***************************************************************************)

\* the locals of define_dirichlet_bcs_T before its loop
dT_enter ==
  [fn |-> "define_dirichlet_bcs_T", status |-> "running", msg |-> <<>>,
   at |-> 0, bcs |-> <<>>, expressions |-> <<>>, created |-> <<>>]

\* surfaces as a list: a list is taken as it is, anything else is wrapped
dT_as_list(surfaces) ==
  IF surfaces.islist THEN surfaces.ids ELSE <<surfaces.id>>

\* one DirichletBC on V_CG1 per surface, in the order of the list
dT_constraints(value, surfaces, i) ==
  [k \in 1..Len(surfaces) |->
     DirichletBC([whole |-> TRUE, component |-> 0], value, surfaces[k], i)]

\* one pass of the loop over the thermal conditions
dT_body(fr, bc, i) ==
  IF "type" \notin bc.keys THEN Raise(fr, "KeyError", <<"type">>, i)
  ELSE IF bc.type # "dc" THEN fr
  ELSE IF "value" \notin bc.keys THEN Raise(fr, "KeyError", <<"value">>, i)
  ELSE
    LET value == Expression(ccode(<<"value", bc.sym>>), 2, NextOid(fr), i)
        f1 == [fr EXCEPT !.expressions = Append(@, value),
                         !.created = Append(@, value)]
    IN  IF "surfaces" \notin bc.keys
          THEN Raise(f1, "KeyError", <<"surfaces">>, i)
          ELSE [f1 EXCEPT !.bcs = @ \o dT_constraints(
                                         value, dT_as_list(bc.surfaces), i)]

RECURSIVE dT_loop(_, _, _)
dT_loop(fr, boundary_conditions, i) ==
  IF fr.status # "running" THEN fr
  ELSE IF i > Len(boundary_conditions) THEN [fr EXCEPT !.status = "returned"]
  ELSE dT_loop(dT_body(fr, boundary_conditions[i], i), boundary_conditions,
               i + 1)

define_dirichlet_bcs_T(boundary_conditions) ==
  dT_loop(dT_enter, boundary_conditions, 1)

(***************************************************************************)
(* FluxBC objects: MassFlux and ConvectiveFlux.  An attribute that has not *)
(* been assigned is the empty sequence, an assigned one a sequence of one  *)
(* element.                                                                *)
(***************************************************************************)

\* MassFlux(h_coeff, c_ext, solubility_law, pre_exp_liquid,
\*          activation_energy_liquid, S_0, E_S, surfaces)
MassFlux(solubility_law, sym) ==
  [cls |-> "MassFlux", solubility_law |-> solubility_law, sym |-> sym,
   field |-> "0", form |-> <<>>, sub_expressions |-> <<>>]

\* ConvectiveFlux(h_coeff, T_ext, surfaces)
ConvectiveFlux(sym) ==
  [cls |-> "ConvectiveFlux", solubility_law |-> "", sym |-> sym,
   field |-> "T", form |-> <<>>, sub_expressions |-> <<>>]

\* the FluxBC objects the model draws from
FluxPool ==
  {MassFlux(law, "a") : law \in {"sievert", "henry", "sieverts"}}
  \cup {ConvectiveFlux("b")}

\* S_0*exp(-E_S/k_B/T)
sieverts_constant(T, S_0, E_S) == S_0 \o <<"*exp(-">> \o E_S \o <<"/k_B/", T, ")">>

\* H_0*exp(-E_H/k_B/T)
henry_constant(T, H_0, E_H) == H_0 \o <<"*exp(-">> \o E_H \o <<"/k_B/", T, ")">>

\* sign * h_coeff * (base**power * times - ext)
Form(negated, h_coeff, base, power, times, ext) ==
  [negated |-> negated, h_coeff |-> h_coeff, base |-> base, power |-> power,
   times |-> times, ext |-> ext]

\* mf_c_interface_liquid with Henry's law taken to the power 1
mf_c_interface_liquid_linear(self, T, S_) ==
  LET pre_exp_liquid == <<"pre_exp_liquid", self.sym>>
      activation_energy_liquid == <<"activation_energy_liquid", self.sym>>
  IN  CASE self.solubility_law = "sievert" ->
             <<[base |-> <<"solute/">> \o S_, power |-> 1,
                times |-> sieverts_constant(T, pre_exp_liquid,
                                            activation_energy_liquid)]>>
        [] self.solubility_law = "henry" ->
             <<[base |-> <<"solute/">> \o S_, power |-> 1,
                times |-> henry_constant(T, pre_exp_liquid,
                                         activation_energy_liquid)]>>
        [] OTHER -> <<>>

\* the liquid-side interface concentration of a MassFlux, by its law:
\* <<>> when the law is neither 'sievert' nor 'henry'
mf_c_interface_liquid(self, T, S_) ==
  LET pre_exp_liquid == <<"pre_exp_liquid", self.sym>>
      activation_energy_liquid == <<"activation_energy_liquid", self.sym>>
  IN  CASE self.solubility_law = "sievert" ->
             <<[base |-> <<"solute/">> \o S_, power |-> 1,
                times |-> sieverts_constant(T, pre_exp_liquid,
                                            activation_energy_liquid)]>>
        [] self.solubility_law = "henry" ->
             <<[base |-> <<"solute/">> \o S_, power |-> 2,
                times |-> henry_constant(T, pre_exp_liquid,
                                         activation_energy_liquid)]>>
        [] OTHER -> <<>>

\* what create_form raises when the law is neither 'sievert' nor 'henry'
mf_error == <<"Invalid solubility law. Choose between 'sievert' or 'henry'">>

\* MassFlux.create_form(T, solute): the object after the call and the
\* call's outcome
MassFlux_create_form(self, i) ==
  LET h_coeff == Expression(ccode(<<"h_coeff", self.sym>>), 1, 1, i)
      c_ext   == Expression(ccode(<<"c_ext", self.sym>>), 1, 2, i)
      S_      == sieverts_constant("T", <<"S_0", self.sym>>,
                                   <<"E_S", self.sym>>)
      c       == mf_c_interface_liquid(self, "T", S_)
      fr      == [fn |-> "MassFlux.create_form", status |-> "running",
                  msg |-> <<>>, at |-> i, created |-> <<h_coeff, c_ext>>]
  IN  IF c = <<>>
        THEN [self |-> self, ret |-> Raise(fr, "ValueError", mf_error, i)]
        ELSE [self |-> [self EXCEPT
                          !.form = <<Form(TRUE, h_coeff, c[1].base, c[1].power,
                                          c[1].times, c_ext)>>,
                          !.sub_expressions = <<<<h_coeff, c_ext>>>>],
              ret |-> [fr EXCEPT !.status = "returned"]]

\* the expressions ConvectiveFlux.create_form lists
cf_sub_expressions(h_coeff, T_ext) == <<h_coeff, T_ext>>

\* ConvectiveFlux.create_form(T, solute)
ConvectiveFlux_create_form(self, i) ==
  LET h_coeff == Expression(ccode(<<"h_coeff", self.sym>>), 1, 1, i)
      T_ext   == Expression(ccode(<<"T_ext", self.sym>>), 1, 2, i)
      fr      == [fn |-> "ConvectiveFlux.create_form", status |-> "returned",
                  msg |-> <<>>, at |-> i, created |-> <<h_coeff, T_ext>>]
  IN  [self |-> [self EXCEPT
                   !.form = <<Form(FALSE, h_coeff, <<"T">>, 1, <<>>, T_ext)>>,
                   !.sub_expressions = <<cf_sub_expressions(h_coeff, T_ext)>>],
       ret |-> fr]

(***************************************************************************)
(* The state machine.                                                      *)
(***************************************************************************)

\* how MaxConds declarations at most split over the three lists
Splits ==
  {k \in (0..MaxConds) \X (0..MaxConds) \X (0..MaxConds) :
     k[1] + k[2] + k[3] <= MaxConds}

Problems ==
  UNION {{[boundary_conditions |-> b, temperature |-> t, fluxbcs |-> o] :
            b \in [1..k[1] -> BCPool], t \in [1..k[2] -> TPool],
            o \in [1..k[3] -> FluxPool]} : k \in Splits}

Init ==
  /\ \E p \in Problems, m \in MaterialLists :
       /\ parameters = [boundary_conditions |-> p.boundary_conditions,
                        materials |-> m,
                        temperature |-> p.temperature]
       /\ fluxbcs = p.fluxbcs
  /\ S \in {"None", "S"}
  /\ V \in {0, 2}
  /\ ret = [fn |-> "none", status |-> "none"]

ApplyBoundaryConditions ==
  /\ ret' = apply_boundary_conditions(parameters.boundary_conditions,
                                      parameters.materials, V)
  /\ UNCHANGED <<parameters, S, V, fluxbcs>>

ApplyFluxes ==
  /\ ret' = apply_fluxes(parameters.boundary_conditions,
                         parameters.materials, S)
  /\ UNCHANGED <<parameters, S, V, fluxbcs>>

DefineDirichletBcsT ==
  /\ ret' = define_dirichlet_bcs_T(parameters.temperature)
  /\ UNCHANGED <<parameters, S, V, fluxbcs>>

MassFluxCreateForm(i) ==
  /\ fluxbcs[i].cls = "MassFlux"
  /\ LET r == MassFlux_create_form(fluxbcs[i], i)
     IN  /\ fluxbcs' = [fluxbcs EXCEPT ![i] = r.self]
         /\ ret' = r.ret
  /\ UNCHANGED <<parameters, S, V>>

ConvectiveFluxCreateForm(i) ==
  /\ fluxbcs[i].cls = "ConvectiveFlux"
  /\ LET r == ConvectiveFlux_create_form(fluxbcs[i], i)
     IN  /\ fluxbcs' = [fluxbcs EXCEPT ![i] = r.self]
         /\ ret' = r.ret
  /\ UNCHANGED <<parameters, S, V>>

Next ==
  \/ ApplyBoundaryConditions
  \/ ApplyFluxes
  \/ DefineDirichletBcsT
  \/ \E i \in 1..Len(fluxbcs) : MassFluxCreateForm(i)
  \/ \E i \in 1..Len(fluxbcs) : ConvectiveFluxCreateForm(i)

Spec == Init /\ [][Next]_vars

(***************************************************************************)
(* The claims.  The vocabulary below restates the specification's terms;   *)
(* it does not use the operators that model the code.                      *)
(***************************************************************************)
bcl == parameters.boundary_conditions

EssentialKinds == {"dc", "solubility", "dc_imp"}

NaturalKinds == {"flux", "recomb"}

Typed(BC) == "type" \in BC.keys

IsEssential(BC) == Typed(BC) /\ BC.type \in EssentialKinds

IsNatural(BC) == Typed(BC) /\ BC.type \in NaturalKinds

IsUnknown(BC) == Typed(BC) /\ BC.type \notin EssentialKinds \cup NaturalKinds

\* a declaration of a recognized kind with all the keys of its kind
WellFormed(BC) ==
  /\ Typed(BC)
  /\ BC.type \in EssentialKinds \cup NaturalKinds
  /\ KeysOf(BC.type) \subseteq BC.keys

\* the surface ids of a declaration, a bare id counting as one
SurfaceIds(BC) == IF BC.surfaces.islist THEN BC.surfaces.ids
                                        ELSE <<BC.surfaces.id>>

\* the component a declaration targets
ComponentOf(BC) == IF "component" \in BC.keys THEN BC.component ELSE 0

Count(seq, x) == Cardinality({k \in 1..Len(seq) : seq[k] = x})

\* <<declaration, surface>> of the first n declarations whose kind is in
\* kinds: in declaration order, then in surface order
RECURSIVE Pairs(_, _, _)
Pairs(conds, kinds, n) ==
  IF n = 0 THEN <<>>
  ELSE Pairs(conds, kinds, n - 1) \o
       (IF Typed(conds[n]) /\ conds[n].type \in kinds
          THEN [k \in 1..Len(SurfaceIds(conds[n])) |->
                  <<n, SurfaceIds(conds[n])[k]>>]
          ELSE <<>>)

RECURSIVE SumSurfaces(_, _, _)
SumSurfaces(conds, kinds, n) ==
  IF n = 0 THEN 0
  ELSE SumSurfaces(conds, kinds, n - 1) +
       (IF Typed(conds[n]) /\ conds[n].type \in kinds
          THEN Len(SurfaceIds(conds[n])) ELSE 0)

\* <<declaration, surface>> of each element of a list of constraints or terms
PairsIn(items) == [k \in 1..Len(items) |-> <<items[k].decl, items[k].surface>>]

Called(fn) == ret.fn = fn

Returned(fn) == ret.fn = fn /\ ret.status = "returned"

\* C1: when apply_boundary_conditions returns, the number of constraints is
\* the sum of the numbers of surfaces of the essential conditions (a bare id
\* counting as one, a natural condition as none), and the constraints come in
\* declaration order, then in surface order.
C1_ConstraintCount ==
  Returned("apply_boundary_conditions") =>
    /\ Len(ret.bcs) = SumSurfaces(bcl, EssentialKinds, Len(bcl))
    /\ PairsIn(ret.bcs) = Pairs(bcl, EssentialKinds, Len(bcl))

C1_Witness ==
  /\ Returned("apply_boundary_conditions")
  /\ Len(ret.bcs) = 3
  /\ \E i \in 1..Len(bcl) : ~bcl[i].surfaces.islist /\ IsEssential(bcl[i])

\* the first unknown-kind declaration of conds, 0 when there is none
FirstUnknown(conds) ==
  IF \E i \in 1..Len(conds) : IsUnknown(conds[i])
    THEN CHOOSE i \in 1..Len(conds) :
           IsUnknown(conds[i]) /\ \A j \in 1..(i - 1) : ~IsUnknown(conds[j])
    ELSE 0

UnknownTypeError(kind) == <<"Unknown boundary condition type : ", kind>>

\* C2 as stated: with a condition of unknown kind anywhere in the list, both
\* assemblers fail with the unknown-type error naming the kind, and no
\* constraint and no residual term has been produced for any condition by then.
C2_Original ==
  LET u == FirstUnknown(bcl)
  IN  u # 0 =>
        /\ Called("apply_boundary_conditions") =>
             /\ ret.status = "NameError"
             /\ ret.msg = UnknownTypeError(bcl[u].type)
             /\ ret.bcs = <<>>
        /\ Called("apply_fluxes") =>
             /\ ret.status = "NameError"
             /\ ret.msg = UnknownTypeError(bcl[u].type)
             /\ ret.F = <<>>

\* C2 as amended: with a condition of unknown kind at position u and only
\* well-formed conditions before it, both assemblers fail with the
\* unknown-type error naming the kind when they reach u; nothing has been
\* built for u or a later condition by then, and the constraints (residual
\* terms) of the conditions before u have all been built.
C2_Amended ==
  LET u == FirstUnknown(bcl)
  IN  (u # 0 /\ \A j \in 1..(u - 1) : WellFormed(bcl[j])) =>
        /\ Called("apply_boundary_conditions") =>
             /\ ret.status = "NameError"
             /\ ret.msg = UnknownTypeError(bcl[u].type)
             /\ ret.at = u
             /\ \A k \in 1..Len(ret.created) : ret.created[k].decl < u
             /\ PairsIn(ret.bcs) = Pairs(bcl, EssentialKinds, u - 1)
        /\ Called("apply_fluxes") =>
             /\ ret.status = "NameError"
             /\ ret.msg = UnknownTypeError(bcl[u].type)
             /\ ret.at = u
             /\ \A k \in 1..Len(ret.created) : ret.created[k].decl < u
             /\ PairsIn(ret.F) = Pairs(bcl, NaturalKinds, u - 1)

C2_Witness ==
  /\ Called("apply_boundary_conditions")
  /\ ret.status = "NameError"
  /\ ret.at = 2
  /\ Len(ret.bcs) > 0

\* the list with every bare surface id made a one-element list
Promote(conds) ==
  [i \in 1..Len(conds) |->
     IF conds[i].surfaces.islist THEN conds[i]
     ELSE [conds[i] EXCEPT !.surfaces = List(<<conds[i].surfaces.id>>)]]

\* C3: with a bare surface id or with the one-element list of that id, each
\* entry point has the same outcome: the same constraints, residual terms,
\* registered expressions and error.
C3_BareIsSingleton ==
  /\ Called("apply_boundary_conditions") =>
       ret = apply_boundary_conditions(Promote(bcl), parameters.materials, V)
  /\ Called("apply_fluxes") =>
       ret = apply_fluxes(Promote(bcl), parameters.materials, S)
  /\ Called("define_dirichlet_bcs_T") =>
       ret = define_dirichlet_bcs_T(Promote(parameters.temperature))

C3_Witness ==
  /\ Returned("apply_fluxes")
  /\ Len(ret.F) > 0
  /\ \E i \in 1..Len(bcl) : ~bcl[i].surfaces.islist /\ IsNatural(bcl[i])

\* the essential path's rule for conservation of chemical potential
EssentialModeActive ==
  \E m \in 1..Len(parameters.materials) :
     "S_0" \in parameters.materials[m].keys

\* the objects built while declaration i was handled
BuiltFor(i) ==
  {o \in {ret.created[k] : k \in 1..Len(ret.created)} : o.decl = i}

\* the untransformed value expression of essential declaration i
ValueClass(BC) ==
  CASE BC.type = "dc"         -> "Expression"
    [] BC.type = "solubility" -> "BoundaryConditionSolubility"
    [] BC.type = "dc_imp"     -> "BoundaryConditionRecomb"

IsValueOf(o, i) ==
  /\ o.decl = i
  /\ o.cls = ValueClass(bcl[i])
  /\ bcl[i].type = "dc" => o.degree = 4

Position(seq, x) == CHOOSE k \in 1..Len(seq) : seq[k] = x

\* C4: in apply_boundary_conditions, an essential condition on component 0
\* under conservation of chemical potential is imposed through the theta
\* transform of its value, and the value and its transform are both
\* registered, the value first; otherwise the value itself is imposed, it is
\* registered exactly once and no transform is built.
C4_ThetaTransform ==
  Returned("apply_boundary_conditions") =>
    \A i \in 1..Len(bcl) : IsEssential(bcl[i]) =>
      \E v \in BuiltFor(i) :
        /\ IsValueOf(v, i)
        /\ IF EssentialModeActive /\ ComponentOf(bcl[i]) = 0
             THEN \E th \in BuiltFor(i) :
                    /\ th.cls = "BoundaryConditionTheta"
                    /\ th.args = <<v>>
                    /\ \A k \in 1..Len(ret.bcs) :
                         ret.bcs[k].decl = i => ret.bcs[k].value = th
                    /\ Count(ret.expressions, v) = 1
                    /\ Count(ret.expressions, th) = 1
                    /\ Position(ret.expressions, v)
                         < Position(ret.expressions, th)
             ELSE /\ \A k \in 1..Len(ret.bcs) :
                       ret.bcs[k].decl = i => ret.bcs[k].value = v
                  /\ Count(ret.expressions, v) = 1
                  /\ \A o \in BuiltFor(i) : o.cls # "BoundaryConditionTheta"

C4_Witness ==
  /\ Returned("apply_boundary_conditions")
  /\ EssentialModeActive
  /\ \E k \in 1..Len(ret.bcs) : ret.bcs[k].value.cls = "BoundaryConditionTheta"
  /\ \E k \in 1..Len(ret.bcs) : ret.bcs[k].value.cls = "Expression"

\* a message names a value when the value is one of its parts
Names(msg, value) == \E k \in 1..Len(msg) : msg[k] = value

\* the Arrhenius law P_0*exp(-E/k_B/T) of the liquid's solubility parameters
LiquidLaw(self) ==
  <<"pre_exp_liquid", self.sym, "*exp(-", "activation_energy_liquid", self.sym,
    "/k_B/", "T", ")">>

\* what create_form computes for a law it knows: c/S(T) to the given power,
\* times the liquid's constant
MassFluxFormIs(self, power) ==
  /\ ret.status = "returned"
  /\ Len(self.form) = 1
  /\ self.form[1].power = power
  /\ self.form[1].times = LiquidLaw(self)
  /\ self.form[1].base =
       <<"solute/", "S_0", self.sym, "*exp(-", "E_S", self.sym, "/k_B/", "T",
         ")">>

\* C5 as stated: MassFlux.create_form takes c/S(T) to the power 1 for
\* 'sievert' and to the power 2 for 'henry', and for any other law fails with
\* an error naming the law, form and sub_expressions left unset.
C5_Original ==
  Called("MassFlux.create_form") =>
    LET self == fluxbcs[ret.at]
    IN  CASE self.solubility_law = "sievert" -> MassFluxFormIs(self, 1)
          [] self.solubility_law = "henry"   -> MassFluxFormIs(self, 2)
          [] OTHER -> /\ ret.status = "ValueError"
                      /\ Names(ret.msg, self.solubility_law)
                      /\ self.form = <<>>
                      /\ self.sub_expressions = <<>>

\* C5 as amended: the same, but the error of an unknown law is the fixed text
\* "Invalid solubility law. Choose between 'sievert' or 'henry'", which does
\* not name the law.
C5_Amended ==
  Called("MassFlux.create_form") =>
    LET self == fluxbcs[ret.at]
    IN  CASE self.solubility_law = "sievert" -> MassFluxFormIs(self, 1)
          [] self.solubility_law = "henry"   -> MassFluxFormIs(self, 2)
          [] OTHER ->
               /\ ret.status = "ValueError"
               /\ ret.msg = <<"Invalid solubility law. Choose between 'sievert' or 'henry'">>
               /\ ~Names(ret.msg, self.solubility_law)
               /\ self.form = <<>>
               /\ self.sub_expressions = <<>>

C5_Witness ==
  /\ Called("MassFlux.create_form")
  /\ ret.status = "ValueError"
  /\ \E i \in 1..Len(fluxbcs) :
       fluxbcs[i].solubility_law = "henry" /\ Len(fluxbcs[i].form) = 1

\* the surface concentrations built for dc_imp declarations
RecombValues ==
  {o \in {ret.created[k] : k \in 1..Len(ret.created)} :
     o.cls = "BoundaryConditionRecomb"}

HasSqrtTerm(val) == \E k \in 1..Len(val) : val[k] = "(phi/K)**0.5"

\* a key given with a value other than None
Supplied(BC, key) ==
  key \in BC.keys /\ (key = "K_0" => BC.K_0 # "None")

\* C6 as stated: the value of a dc_imp condition has the sqrt(phi/K) term
\* exactly when K_0 is supplied, and is phi*R_p/D alone otherwise.
C6_Original ==
  Called("apply_boundary_conditions") =>
    \A v \in RecombValues :
      LET val == BoundaryConditionRecomb_eval(v)
      IN  /\ HasSqrtTerm(val) <=> Supplied(bcl[v.decl], "K_0")
          /\ ~HasSqrtTerm(val) => val = <<"phi*R_p/D">>

\* C6 as amended: the value of a dc_imp condition has the sqrt(phi/K) term
\* exactly when both K_0 and E_K are supplied, and is phi*R_p/D alone
\* otherwise.
C6_Amended ==
  Called("apply_boundary_conditions") =>
    \A v \in RecombValues :
      LET val == BoundaryConditionRecomb_eval(v)
      IN  /\ HasSqrtTerm(val) <=> /\ Supplied(bcl[v.decl], "K_0")
                                  /\ Supplied(bcl[v.decl], "E_K")
          /\ HasSqrtTerm(val) => val = <<"phi*R_p/D", "(phi/K)**0.5">>
          /\ ~HasSqrtTerm(val) => val = <<"phi*R_p/D">>

C6_Witness ==
  /\ Returned("apply_boundary_conditions")
  /\ \E v \in RecombValues :
       /\ "K_0" \in bcl[v.decl].keys
       /\ "E_K" \notin bcl[v.decl].keys
       /\ ~HasSqrtTerm(BoundaryConditionRecomb_eval(v))
  /\ \E v \in RecombValues : HasSqrtTerm(BoundaryConditionRecomb_eval(v))

\* the first declaration of conds without the key type, 0 when there is none
FirstUntyped(conds) ==
  IF \E i \in 1..Len(conds) : ~Typed(conds[i])
    THEN CHOOSE i \in 1..Len(conds) :
           ~Typed(conds[i]) /\ \A j \in 1..(i - 1) : Typed(conds[j])
    ELSE 0

\* C7: with a condition lacking the key type, both assemblers fail; neither
\* goes past that condition, and when it is reached the failure is a KeyError
\* raised before anything is built for it: no expression, no constraint, no
\* residual term, under no default kind.
C7_MissingType ==
  LET u == FirstUntyped(bcl)
  IN  u # 0 =>
        /\ Called("apply_boundary_conditions") =>
             /\ ret.status # "returned"
             /\ ret.at <= u
             /\ ret.at = u => ret.status = "KeyError"
             /\ \A k \in 1..Len(ret.created) : ret.created[k].decl < u
             /\ \A k \in 1..Len(ret.bcs) : ret.bcs[k].decl < u
             /\ \A k \in 1..Len(ret.expressions) : ret.expressions[k].decl < u
        /\ Called("apply_fluxes") =>
             /\ ret.status # "returned"
             /\ ret.at <= u
             /\ ret.at = u => ret.status = "KeyError"
             /\ \A k \in 1..Len(ret.created) : ret.created[k].decl < u
             /\ \A k \in 1..Len(ret.F) : ret.F[k].decl < u
             /\ \A k \in 1..Len(ret.expressions) : ret.expressions[k].decl < u

C7_Witness ==
  /\ Called("apply_boundary_conditions")
  /\ ret.status = "KeyError"
  /\ ret.msg = <<"Missing boundary condition type key">>
  /\ ret.at = 2
  /\ Len(ret.bcs) > 0

\* the flux expression of natural declaration i, built from its parameters
IsOwnFlux(g, i) ==
  /\ g.decl = i
  /\ bcl[i].type = "flux" =>
       g.cls = "Expression" /\ g.code = <<"ccode", "value", bcl[i].sym>>
  /\ bcl[i].type = "recomb" =>
       /\ g.cls = "-Kr*solute**order"
       /\ g.code = <<"Kr_0", bcl[i].sym, "E_Kr", bcl[i].sym, ret.solute,
                     "order", bcl[i].sym>>

\* C8: when apply_fluxes returns, the residual is one term
\* -test_solute*g*ds(surface) per natural condition and surface, g being the
\* flux built from that condition's own parameters; essential conditions
\* contribute nothing.
C8_ResidualTerms ==
  Returned("apply_fluxes") =>
    /\ PairsIn(ret.F) = Pairs(bcl, NaturalKinds, Len(bcl))
    /\ \A k \in 1..Len(ret.F) :
         /\ ret.F[k].test = "-test_solute"
         /\ IsOwnFlux(ret.F[k].flux, ret.F[k].decl)

C8_Witness ==
  /\ Returned("apply_fluxes")
  /\ \E k \in 1..Len(ret.F) : ret.F[k].decl = 1 /\ ret.F[k].flux.cls = "Expression"
  /\ \E k \in 1..Len(ret.F) : ret.F[k].decl = 2 /\ ret.F[k].flux.cls # "Expression"

\* the specification's rule: some material defines S_0 or E_S
SolubilityDeclared ==
  \E m \in 1..Len(parameters.materials) :
     \/ "S_0" \in parameters.materials[m].keys
     \/ "E_S" \in parameters.materials[m].keys

\* C9, for the problems whose simulation has its S: conservation of chemical
\* potential is active exactly when some material defines S_0 or E_S, in the
\* natural path (which then uses solute*S) and in the essential path (which
\* then imposes the theta transform on component 0).
C9_OneRule ==
  S # "None" =>
    /\ Called("apply_fluxes") =>
         /\ ret.conservation_chemic_pot <=> SolubilityDeclared
         /\ ret.solute = "solute*S" <=> SolubilityDeclared
    /\ Returned("apply_boundary_conditions") =>
         \A i \in 1..Len(bcl) :
           (IsEssential(bcl[i]) /\ ComponentOf(bcl[i]) = 0) =>
             ((\E th \in BuiltFor(i) : th.cls = "BoundaryConditionTheta")
                <=> SolubilityDeclared)

\* C10: when an assembler returns, every expression it created is in the
\* returned list exactly once, the list holds nothing else and follows the
\* order of the declarations; create_form lists both expressions it created.
C10_AllRegistered ==
  /\ (Returned("apply_boundary_conditions") \/ Returned("apply_fluxes")) =>
       /\ \A k \in 1..Len(ret.created) :
            Count(ret.expressions, ret.created[k]) = 1
       /\ Len(ret.expressions) = Len(ret.created)
       /\ \A j, k \in 1..Len(ret.expressions) :
            j < k => ret.expressions[j].decl <= ret.expressions[k].decl
  /\ (Returned("MassFlux.create_form")
        \/ Returned("ConvectiveFlux.create_form")) =>
       /\ Len(ret.created) = 2
       /\ ret.created[1] # ret.created[2]
       /\ fluxbcs[ret.at].sub_expressions = <<ret.created>>

C10_Witness ==
  /\ Returned("apply_boundary_conditions")
  /\ Len(ret.expressions) = 4
  /\ \E k \in 1..Len(ret.expressions) :
       ret.expressions[k].cls = "BoundaryConditionTheta"
  /\ \E i \in 1..Len(fluxbcs) : Len(fluxbcs[i].sub_expressions) = 1

====
